---- MODULE Spec2Model ----
(***************************************************************************)
(* BookNet: the recommendation engine and the library routes that feed it. *)
(*                                                                         *)
(* Numbers.  Ratings, weights, averages and scores are JavaScript numbers. *)
(* They are modelled as exact rationals <<n, d>> (d > 0, lowest terms), so *)
(* 0.5 is <<1, 2>> and a rating of 4.5 is <<9, 2>>.  An absent (undefined) *)
(* value is the empty tuple.  Floating-point rounding is not modelled.     *)
(*                                                                         *)
(* Documents.  A user document is a record with the fields of IUser that   *)
(* the routes touch, plus Mongoose's version key v.  books is the embedded *)
(* array (a sequence, in insertion order); favorites is used by the code   *)
(* only through membership ($addToSet, $pull, some) and is a set.  The two *)
(* preference Maps are sequences of <<key, weight>> in insertion order.    *)
(***************************************************************************)
EXTENDS Integers, Sequences, FiniteSets, TLC

VARIABLES
    users,      \* the users collection: user id -> user document
    books,      \* the books collection: book id -> book document
    reqs,       \* requests in flight: request id -> its handler's locals
    tasks,      \* detached updateUserPreferences calls in flight
    resps,      \* responses sent so far (request id, route, status code ...)
    nreq,       \* number of requests accepted so far
    hist,       \* models that completed recomputations were asked to store
    call,       \* the arguments of the service call under study
    ret         \* what that call returned

vars == <<users, books, reqs, tasks, resps, nreq, hist, call, ret>>

----------------------------------------------------------------------------
(* Rational arithmetic *)

Abs(x) == IF x < 0 THEN -x ELSE x

RECURSIVE Gcd(_, _)
Gcd(a, b) == IF b = 0 THEN a ELSE Gcd(b, a % b)

\* n / d in lowest terms; a zero divisor gives JavaScript's non-finite results,
\* written <<1, 0>> (Infinity), <<-1, 0>> (-Infinity) and <<0, 0>> (NaN)
Q(n, d) ==
    LET g == Gcd(Abs(n), d)
    IN  IF d = 0 THEN <<IF n > 0 THEN 1 ELSE IF n < 0 THEN -1 ELSE 0, 0>>
        ELSE IF n = 0 THEN <<0, 1>>
        ELSE <<n \div g, d \div g>>

Finite(a) == a[2] # 0

Zero == Q(0, 1)
QAdd(a, b) == Q(a[1] * b[2] + b[1] * a[2], a[2] * b[2])
QSub(a, b) == Q(a[1] * b[2] - b[1] * a[2], a[2] * b[2])
QMul(a, b) == Q(a[1] * b[1], a[2] * b[2])
QDivInt(a, k) == Q(a[1], a[2] * k)
\* a - b scaled by the least common denominator (its sign decides the order)
QDiff(a, b) ==
    LET g == Gcd(a[2], b[2])
    IN  IF g = 0 THEN a[1] * b[2] - b[1] * a[2]
        ELSE a[1] * (b[2] \div g) - b[1] * (a[2] \div g)

QLess(a, b) == QDiff(a, b) < 0
QLeq(a, b) == QDiff(a, b) <= 0
QMax(a, b) == IF QLess(a, b) THEN b ELSE a

RECURSIVE QSum(_)
QSum(s) == IF s = <<>> THEN Zero ELSE QAdd(s[1], QSum(Tail(s)))

Undefined == <<>>

----------------------------------------------------------------------------
(* models/User.ts and models/Book.ts *)

Statuses == {"toRead", "reading", "read"}

validRatings ==
    {Q(1, 1), Q(3, 2), Q(2, 1), Q(5, 2), Q(3, 1), Q(7, 2), Q(4, 1), Q(9, 2), Q(5, 1)}

UserBook(b, s, r) == [book |-> b, status |-> s, rating |-> r]

NewUser ==
    [books |-> <<>>, favorites |-> {}, v |-> 0,
     preferredGenres |-> <<>>, preferredAuthors |-> <<>>,
     averageRating |-> Undefined, totalBooksRead |-> Undefined]

BookDoc(a, gs, avg, n) ==
    [author |-> a, genres |-> gs, averageRating |-> avg, totalRatings |-> n]

RECURSIVE SelectSeqBy(_, _)
SelectSeqBy(s, keep) ==
    IF s = <<>> THEN <<>>
    ELSE IF Head(s) \in keep THEN <<Head(s)>> \o SelectSeqBy(Tail(s), keep)
    ELSE SelectSeqBy(Tail(s), keep)

Range(s) == {s[i] : i \in DOMAIN s}

----------------------------------------------------------------------------
(* services/recommendation.ts: preference recomputation *)

ratingToWeightLowCut(rating) ==
    IF rating = Undefined \/ QLess(rating, Q(5, 2)) THEN Zero
    ELSE QMax(Zero, QDivInt(QSub(rating, Q(2, 1)), 3))

ratingToWeight(rating) ==
    IF rating = Undefined \/ QLeq(rating, Q(5, 2)) THEN Zero
    ELSE QMax(Zero, QDivInt(QSub(rating, Q(2, 1)), 3))

\* Map.get(key) || 0
MapGet(map, key) ==
    IF \E i \in DOMAIN map : map[i][1] = key
    THEN map[CHOOSE i \in DOMAIN map : map[i][1] = key][2]
    ELSE Zero

\* map.set(key, (map.get(key) || 0) + weight): an existing key keeps its place
MapAdd(map, key, weight) ==
    IF \E i \in DOMAIN map : map[i][1] = key
    THEN [i \in DOMAIN map |->
            IF map[i][1] = key THEN <<key, QAdd(map[i][2], weight)>> ELSE map[i]]
    ELSE Append(map, <<key, weight>>)

RECURSIVE MapAddAll(_, _, _)
MapAddAll(map, keys, weight) ==
    IF keys = <<>> THEN map
    ELSE MapAddAll(MapAdd(map, Head(keys), weight), Tail(keys), weight)

MapKeys(map) == {map[i][1] : i \in DOMAIN map}

\* lines 32-46: the weight one library entry contributes
EntryWeightNoBonus(userBook, favorites) ==
    LET base == ratingToWeight(userBook.rating)
    IN  IF base = Zero /\ userBook.status = "toRead" THEN Q(1, 10) ELSE base

EntryWeight(userBook, favorites) ==
    LET base    == ratingToWeight(userBook.rating)
        bonused == IF userBook.book \in favorites THEN QAdd(base, Q(1, 2)) ELSE base
    IN  IF bonused = Zero /\ userBook.status = "toRead" THEN Q(1, 10) ELSE bonused

\* lines 25-63: the loop over user.books; acc is <<genreScores, authorScores>>.
\* catalog is the books collection as populate('books.book') saw it.
RECURSIVE ScoreLoop(_, _, _, _)
ScoreLoop(entries, favorites, catalog, acc) ==
    IF entries = <<>> THEN acc
    ELSE
        LET userBook == Head(entries)
            rest     == Tail(entries)
        IN  IF userBook.book \notin DOMAIN catalog
            THEN ScoreLoop(rest, favorites, catalog, acc)
            ELSE
                LET book   == catalog[userBook.book]
                    weight == EntryWeight(userBook, favorites)
                IN  IF QLeq(weight, Zero)
                    THEN ScoreLoop(rest, favorites, catalog, acc)
                    ELSE ScoreLoop(rest, favorites, catalog,
                            <<MapAddAll(acc[1], book.genres, weight),
                              IF book.author # ""
                              THEN MapAdd(acc[2], book.author, weight)
                              ELSE acc[2]>>)

\* new Map() for genreScores and authorScores
FreshScoresMerged(user) == <<user.preferredGenres, user.preferredAuthors>>

FreshScores(user) == <<<<>>, <<>>>>

RatedBooks(user) == SelectSeq(user.books, LAMBDA b : b.rating # Undefined)

\* lines 25-75: the document as updateUserPreferences leaves it in memory
\* before save(); averageRating is assigned only when some entry is rated.
ComputePreferences(user, catalog) ==
    LET scores == ScoreLoop(user.books, user.favorites, catalog, FreshScores(user))
        rated  == RatedBooks(user)
        sum    == QSum([i \in DOMAIN rated |-> rated[i].rating])
    IN  [user EXCEPT
            !.preferredGenres = scores[1],
            !.preferredAuthors = scores[2],
            !.averageRating =
                IF Len(rated) > 0 THEN QDivInt(sum, Len(rated)) ELSE @,
            !.totalBooksRead =
                <<Len(SelectSeq(user.books, LAMBDA b : b.status = "read"))>>]

ModelFields == {"preferredGenres", "preferredAuthors", "averageRating", "totalBooksRead"}

ModelOf(user) == [f \in ModelFields |-> user[f]]

\* a save that writes the whole document the call holds
SaveWholeDocument(stored, loaded, computed) ==
    [f \in DOMAIN stored |-> IF f = "v" THEN stored[f] ELSE computed[f]]

\* user.save() after updateUserPreferences: Mongoose writes the paths whose
\* value differs from the loaded one; books and favorites are not among them.
SavePreferences(stored, loaded, computed) ==
    [f \in DOMAIN stored |->
        IF f \in ModelFields /\ computed[f] # loaded[f] THEN computed[f] ELSE stored[f]]

----------------------------------------------------------------------------
(* services/recommendation.ts: getRecommendations *)

\* Math.log(n) for the totals the catalogs below hold, to three decimals
Log(n) ==
    CASE n = 1 -> Q(0, 1)
      [] n = 2 -> Q(693, 1000)
      [] n = 3 -> Q(1099, 1000)
      [] n = 4 -> Q(1386, 1000)
      [] n = 5 -> Q(1609, 1000)

calculateScorePopularityOnly(book, preferredGenres, preferredAuthors) ==
    QMul(QMul(book.averageRating, Q(1, 10)), Log(book.totalRatings + 1))

\* lines 101-121
calculateScore(book, preferredGenres, preferredAuthors) ==
    LET genreScore  == QSum([i \in DOMAIN book.genres |->
                                MapGet(preferredGenres, book.genres[i])])
        authorScore == QMul(MapGet(preferredAuthors, book.author), Q(2, 1))
        popularityBonus ==
            QMul(QMul(book.averageRating, Q(1, 10)), Log(book.totalRatings + 1))
    IN  QAdd(QAdd(genreScore, authorScore), popularityBonus)

\* line 198
PopularityScore(book) == QMul(book.averageRating, Log(book.totalRatings + 1))

\* no sort: the pairs stay in the order given
SortAsGiven(pairs) == pairs

\* Array.prototype.sort((a, b) => b[2] - a[2]) on pairs <<item, value>>: by
\* value descending, stable (equal values keep their order)
SortDesc(pairs) ==
    LET before == [i \in DOMAIN pairs |->
                    Cardinality({j \in DOMAIN pairs \ {i} :
                                    \/ pairs[j][2] = pairs[i][2] /\ j < i
                                    \/ pairs[j][2] # pairs[i][2]
                                        /\ QLess(pairs[i][2], pairs[j][2])})]
    IN  [k \in DOMAIN pairs |-> pairs[CHOOSE i \in DOMAIN pairs : before[i] = k - 1]]

\* Array.prototype.slice(0, n)
Slice(s, n) ==
    IF n >= 0 THEN SubSeq(s, 1, IF n < Len(s) THEN n ELSE Len(s))
    ELSE SubSeq(s, 1, IF Len(s) + n > 0 THEN Len(s) + n ELSE 0)

\* the first keys of the map in insertion order, without the sort
getTopFromMapUnsorted(map, limit) ==
    LET top == Slice(map, limit)
    IN  [i \in DOMAIN top |-> top[i][1]]

\* lines 126-132
getTopFromMap(map, limit) ==
    LET top == Slice(SortDesc(map), limit)
    IN  [i \in DOMAIN top |-> top[i][1]]

\* a query document: the $or conditions (none when absent) and the genres
\* equality (<<g>>, Undefined when absent); all of them must hold.  An optional
\* string such as genreFilter is <<g>> or Undefined.
InCondition(field, values) == [field |-> field, in |-> values]

ConditionHolds(book, cond) ==
    IF cond.field = "genres"
    THEN Range(book.genres) \cap Range(cond.in) # {}
    ELSE book.author \in Range(cond.in)

Matches(book, query) ==
    /\ query.or = <<>> \/ \E i \in DOMAIN query.or : ConditionHolds(book, query.or[i])
    /\ query.genres = Undefined \/ query.genres[1] \in Range(book.genres)

OrConditions(topGenres, topAuthors) ==
    (IF Len(topGenres) > 0 THEN <<InCondition("genres", topGenres)>> ELSE <<>>)
    \o (IF Len(topAuthors) > 0 THEN <<InCondition("author", topAuthors)>> ELSE <<>>)

\* lines 156-180: the preference conditions and the genre filter are both put
\* on the one query object
BuildQuery(topGenres, topAuthors, genreFilter) ==
    [or |-> OrConditions(topGenres, topAuthors), genres |-> genreFilter]

\* the other copy of the service (buildCandidateQuery): the filter alone
buildCandidateQuery(topGenres, topAuthors, genreFilter) ==
    IF genreFilter # Undefined
    THEN [or |-> <<>>, genres |-> genreFilter]
    ELSE [or |-> OrConditions(topGenres, topAuthors), genres |-> Undefined]

\* Book.find(query): the ids of the matching documents
Find(catalog, query) == {b \in DOMAIN catalog : Matches(catalog[b], query)}

\* .sort({ averageRating: -1, totalRatings: -1 }): true when a may come before b
MayPrecede(a, b) ==
    \/ QLess(b.averageRating, a.averageRating)
    \/ a.averageRating = b.averageRating /\ a.totalRatings >= b.totalRatings

\* the sequences of n distinct elements of ids
RECURSIVE Orders(_, _)
Orders(ids, n) ==
    IF n = 0 THEN {<<>>}
    ELSE UNION {{<<b>> \o t : t \in Orders(ids \ {b}, n - 1)} : b \in ids}

\* the orders the store may return the matching documents in: documents that
\* tie on both sort keys come in either order
RECURSIVE SortedOrders(_, _)
SortedOrders(catalog, ids) ==
    IF ids = {} THEN {<<>>}
    ELSE LET first == {b \in ids : \A c \in ids : MayPrecede(catalog[b], catalog[c])}
         IN  UNION {{<<b>> \o t : t \in SortedOrders(catalog, ids \ {b})} : b \in first}

\* cursor.limit(n): 0 is no limit, a negative n limits to its magnitude
CursorLimit(s, n) == IF n = 0 THEN s ELSE SubSeq(s, 1, IF Abs(n) < Len(s) THEN Abs(n) ELSE Len(s))

\* Math.round(score * 100) / 100
Round2(x) == Q((2 * 100 * x[1] + x[2]) \div (2 * x[2]), 100)

\* line 148
UserBookIdsNone(user) == {}

UserBookIds(user) == {user.books[i].book : i \in DOMAIN user.books}

\* lines 188-201: skip the owned candidates, score the rest
ScoreCandidates(pool, catalog, user, hasPreferences) ==
    LET unowned == SelectSeq(pool, LAMBDA b : b \notin UserBookIds(user))
    IN  [i \in DOMAIN unowned |->
            <<unowned[i],
              IF hasPreferences
              THEN calculateScore(catalog[unowned[i]], user.preferredGenres,
                                  user.preferredAuthors)
              ELSE PopularityScore(catalog[unowned[i]])>>]

\* lines 203-223 on the fetched candidates
Recommend(user, catalog, pool, limit, topGenres, topAuthors) ==
    LET hasPreferences == Len(topGenres) > 0 \/ Len(topAuthors) > 0
        scoredBooks    == SortDesc(ScoreCandidates(pool, catalog, user, hasPreferences))
        topBooks       == Slice(scoredBooks, limit)
    IN  [recommendations |->
            [i \in DOMAIN topBooks |->
                [id |-> topBooks[i][1],
                 author |-> catalog[topBooks[i][1]].author,
                 genres |-> catalog[topBooks[i][1]].genres,
                 averageRating |-> catalog[topBooks[i][1]].averageRating,
                 score |-> Round2(topBooks[i][2])]],
         basedOn |-> [topGenres |-> topGenres, topAuthors |-> topAuthors]]

----------------------------------------------------------------------------
(* The catalog and the library snapshots the checks run on *)

Catalog ==
    [b \in {"b1", "b2", "b3"} |->
        CASE b = "b1" -> BookDoc("X", <<"Fiction", "Mystery">>, Zero, 0)
          [] b = "b2" -> BookDoc("X", <<"Fiction">>, Zero, 0)
          [] b = "b3" -> BookDoc("Y", <<"NonFiction">>, Zero, 0)]

BookIds == DOMAIN Catalog
AllGenres == UNION {Range(Catalog[b].genres) : b \in BookIds}
AllAuthors == {Catalog[b].author : b \in BookIds}

\* libraries over the book order o with statuses from ss and ratings from rs
LibrariesOn(o, ss, rs) ==
    {[i \in DOMAIN o |-> UserBook(o[i], f[i][1], f[i][2])] :
        f \in [DOMAIN o -> ss \X rs]}

SomeRatings == {Undefined, Q(5, 2), Q(3, 1), Q(5, 1)}

PrefLibraries ==
    UNION {LibrariesOn(o, Statuses, validRatings \cup {Undefined}) :
                o \in Orders(BookIds, 1)}
    \cup UNION {LibrariesOn(o, {"toRead", "read"}, SomeRatings) :
                o \in Orders(BookIds, 2) \cup Orders(BookIds, 3)}
    \cup {<<>>}

\* a model left by an earlier recomputation, when b1 was read and rated 4
EarlierModel ==
    ModelOf(ComputePreferences(
        [NewUser EXCEPT !.books = <<UserBook("b1", "read", Q(4, 1))>>], Catalog))

WithModel(user, m) == [f \in DOMAIN user |-> IF f \in ModelFields THEN m[f] ELSE user[f]]

----------------------------------------------------------------------------
(* updateUserPreferences run to completion on one snapshot, up to twice *)

Idle ==
    /\ reqs = <<>>
    /\ tasks = {}
    /\ resps = {}
    /\ nreq = 0
    /\ hist = {}

InitPrefs ==
    /\ \E lib \in PrefLibraries, favs \in SUBSET BookIds,
          m \in {ModelOf(NewUser), EarlierModel} :
            users = [u \in {"u1"} |->
                        WithModel([NewUser EXCEPT !.books = lib, !.favorites = favs], m)]
    /\ books = Catalog
    /\ Idle
    /\ call = [op |-> "updateUserPreferences", runs |-> 0, prior |-> Undefined,
               first |-> Undefined]
    /\ ret = Undefined

\* lines 17-78 with nothing interleaved: findById + populate, compute, save
RunUpdatePreferences(u) ==
    /\ call.runs < 2
    /\ LET loaded   == users[u]
           computed == ComputePreferences(loaded, books)
           saved    == SavePreferences(users[u], loaded, computed)
       IN  /\ users' = [users EXCEPT ![u] = saved]
           /\ call' = [call EXCEPT
                        !.runs = @ + 1,
                        !.prior = IF call.runs = 0 THEN ModelOf(loaded) ELSE @,
                        !.first = IF call.runs = 0 THEN ModelOf(saved) ELSE @]
           /\ ret' = ModelOf(saved)
    /\ UNCHANGED <<books, reqs, tasks, resps, nreq, hist>>

NextPrefs == \E u \in DOMAIN users : RunUpdatePreferences(u)

SpecPrefs == InitPrefs /\ [][NextPrefs]_vars

----------------------------------------------------------------------------
(* getRecommendations run to completion on one stored state *)

\* catalogs of four books with the aggregates other users' ratings left
RecCatalog(k) ==
    [b \in {"b1", "b2", "b3", "b4"} |->
        CASE b = "b1" -> BookDoc("X", <<"Fiction", "Mystery">>,
                            CASE k = 1 -> Zero [] k = 2 -> Q(4, 1) [] k = 3 -> Q(5, 1),
                            CASE k = 1 -> 0 [] k = 2 -> 2 [] k = 3 -> 1)
          [] b = "b2" -> BookDoc("X", <<"Fiction">>,
                            CASE k = 1 -> Zero [] k = 2 -> Q(9, 2) [] k = 3 -> Q(4, 1),
                            CASE k = 1 -> 0 [] k = 2 -> 1 [] k = 3 -> 3)
          [] b = "b3" -> BookDoc("Y", <<"NonFiction">>,
                            CASE k = 1 -> Zero [] k = 2 -> Q(9, 2) [] k = 3 -> Zero,
                            CASE k = 1 -> 0 [] k = 2 -> 1 [] k = 3 -> 0)
          [] b = "b4" -> BookDoc("Z", <<"Mystery", "NonFiction">>,
                            CASE k = 1 -> Zero [] k = 2 -> Q(3, 1) [] k = 3 -> Q(9, 2),
                            CASE k = 1 -> 0 [] k = 2 -> 4 [] k = 3 -> 2)]

RecCatalogs == {RecCatalog(1), RecCatalog(2), RecCatalog(3)}

\* the preference models recomputation leaves for libraries of up to two read
\* books, unrated or rated 5, with or without b3 as a favorite
RecModels ==
    {ModelOf(ComputePreferences(
        [NewUser EXCEPT !.books = lib, !.favorites = favs], Catalog)) :
        lib \in UNION {LibrariesOn(o, {"read"}, {Undefined, Q(5, 1)}) :
                        o \in Orders(BookIds, 0) \cup Orders(BookIds, 1)
                              \cup Orders(BookIds, 2)},
        favs \in {{}, {"b3"}}}

\* a library holding the books of owned, as import leaves its entries
RECURSIVE LibraryOf(_)
LibraryOf(owned) ==
    IF owned = {} THEN <<>>
    ELSE LET b == CHOOSE x \in owned : TRUE
         IN  <<UserBook(b, "toRead", Undefined)>> \o LibraryOf(owned \ {b})

InitRec ==
    /\ \E owned \in SUBSET {"b1", "b2", "b3", "b4"}, m \in RecModels :
            users = [u \in {"u1"} |->
                        WithModel([NewUser EXCEPT !.books = LibraryOf(owned)], m)]
    /\ books \in RecCatalogs
    /\ Idle
    /\ \E limit \in {1, 2, 3},
          genreFilter \in {Undefined, <<"Fiction">>, <<"Mystery">>, <<"NonFiction">>} :
            call = [op |-> "getRecommendations", user |-> "u1", limit |-> limit,
                    genreFilter |-> genreFilter, impl |-> Undefined,
                    owned |-> {}, candidates |-> {}, pool |-> <<>>]
    /\ ret = Undefined

\* lines 137-224 with nothing interleaved; impl names the copy of the service,
\* which decides how the candidate query is built
Serve(impl) ==
    /\ call.op = "getRecommendations"
    /\ ret = Undefined
    /\ IF call.user \notin DOMAIN users
       THEN /\ ret' = [error |-> "User not found"]
            /\ call' = [call EXCEPT !.impl = impl]
       ELSE LET user       == users[call.user]
                topGenres  == getTopFromMap(user.preferredGenres, 5)
                topAuthors == getTopFromMap(user.preferredAuthors, 5)
                q          == IF impl = "getRecommendations"
                              THEN BuildQuery(topGenres, topAuthors, call.genreFilter)
                              ELSE buildCandidateQuery(topGenres, topAuthors,
                                                       call.genreFilter)
                found      == Find(books, q)
            IN  \E order \in SortedOrders(books, found) :
                    LET pool == CursorLimit(order, call.limit * 5)
                    IN  /\ ret' = Recommend(user, books, pool, call.limit,
                                            topGenres, topAuthors)
                        /\ call' = [call EXCEPT !.impl = impl,
                                                !.owned = UserBookIds(user),
                                                !.candidates = found,
                                                !.pool = pool]
    /\ UNCHANGED <<users, books, reqs, tasks, resps, nreq, hist>>

\* services/recommendation.ts
GetRecommendations == Serve("getRecommendations")

\* the copy of the service that builds its query with buildCandidateQuery
GetRecommendationsCandidateQuery == Serve("buildCandidateQuery")

NextRec == GetRecommendations \/ GetRecommendationsCandidateQuery

SpecRec == InitRec /\ [][NextRec]_vars

(* getRecommendations for users whose model has up to seven genres and authors *)

GenreNames == <<"g1", "g2", "g3", "g4", "g5", "g6", "g7">>

AuthorNames == <<"a1", "a2", "a3", "a4", "a5", "a6", "a7">>

\* books 1..7 have a genre and an author each of their own; book 8 shares its
\* genre with book 1, book 9 its author with book 2, book 10 shares nothing
WideCatalog ==
    [b \in 1..10 |->
        CASE b <= 7 -> BookDoc(AuthorNames[b], <<GenreNames[b]>>, Q(b, 2), 1)
          [] b = 8  -> BookDoc("a8", <<"g8", "g1">>, Q(4, 1), 2)
          [] b = 9  -> BookDoc("a2", <<"g9">>, Q(9, 2), 2)
          [] b = 10 -> BookDoc("a10", <<"g10">>, Q(5, 1), 2)]

\* per library entry: read and unrated (weight 0), rated 3, rated 5
WideRatings == {Undefined, Q(3, 1), Q(5, 1)}

InitTop ==
    /\ \E f \in [1..7 -> WideRatings] :
            LET lib == [i \in 1..7 |-> UserBook(i, "read", f[i])]
                u   == [NewUser EXCEPT !.books = lib]
            IN  users = [x \in {"u1"} |-> ComputePreferences(u, WideCatalog)]
    /\ books = WideCatalog
    /\ Idle
    /\ call = [op |-> "getRecommendations", user |-> "u1", limit |-> 3,
               genreFilter |-> Undefined, impl |-> Undefined,
               owned |-> {}, candidates |-> {}, pool |-> <<>>]
    /\ ret = Undefined

SpecTop == InitTop /\ [][NextRec]_vars

----------------------------------------------------------------------------
(* routes/books.ts: the library routes, one action per database operation a *)
(* handler awaits, so that handlers of concurrent requests interleave        *)

MaxRequests == 3

\* the locals of a handler between two awaits: the loaded user document with
\* the handler's changes, the rating sent (or, for a removal, the entry's),
\* the entry's rating before the change, the book document with the handler's
\* changes and the book document as loaded
Request(route, u, b, pc, doc, rating, oldRating, book, loaded) ==
    [route |-> route, user |-> u, book |-> b, pc |-> pc, doc |-> doc,
     rating |-> rating, oldRating |-> oldRating,
     bdoc |-> book, bloaded |-> loaded]

NoBook == BookDoc("", <<>>, Zero, 0)

Response(id, u, route, code, scheduled) ==
    [id |-> id, user |-> u, route |-> route, code |-> code, scheduled |-> scheduled]

\* an updateUserPreferences(userId) call in flight, detached from the request
\* that made it or awaited by it
Task(id, u, pc, loaded, computed, awaited, wrote) ==
    [id |-> id, user |-> u, pc |-> pc, loaded |-> loaded, computed |-> computed,
     awaited |-> awaited, wrote |-> wrote]

\* what the request that makes the call had stored by then: the version its
\* user.save() produced and the favorite its updateOne added
Wrote(v, favorites) == [v |-> v, favorites |-> favorites]

Put(f, k, v) == [i \in DOMAIN f \cup {k} |-> IF i = k THEN v ELSE f[i]]
Drop(f, k) == [i \in DOMAIN f \ {k} |-> f[i]]

\* user.books.findIndex(b => b.book.toString() === bookId), 0 for -1
EntryIndex(user, b) ==
    IF \E i \in DOMAIN user.books : user.books[i].book = b
    THEN CHOOSE i \in DOMAIN user.books :
            /\ user.books[i].book = b
            /\ \A j \in DOMAIN user.books : user.books[j].book = b => i <= j
    ELSE 0

\* user.books.splice(bookIndex, 1)
Splice(s, i) == SubSeq(s, 1, i - 1) \o SubSeq(s, i + 1, Len(s))

\* the request is answered: its handler is gone, its response is on record
Respond(id, route, code, scheduled) ==
    /\ reqs' = Drop(reqs, id)
    /\ resps' = resps \cup {Response(id, reqs[id].user, route, code, scheduled)}

\* updateUserPreferences(userId).catch(console.error), not awaited
Schedule(id, u, wrote) ==
    tasks' = tasks \cup {Task(id, u, "find", NewUser, NewUser, FALSE, wrote)}

\* a new request: its handler validates and issues its first query, which the
\* store then runs (handlers of earlier requests may still be in flight)
Accept(id) ==
    /\ nreq < MaxRequests
    /\ id = nreq + 1
    /\ nreq' = id

\* a save without the version guard
VersionIgnored(doc, u) == TRUE

\* user.save() with markModified('books'): the whole array is $set, which
\* Mongoose guards with the version key (VersionError when it has moved on)
VersionMatches(doc, u) == users[u].v = doc.v

\* a save that is still pending when the handler goes on
SaveBooksPending(doc, u) ==
    users' = users

SaveBooks(doc, u) ==
    users' = [users EXCEPT ![u].books = doc.books, ![u].v = @ + 1]

\* bookSchema: averageRating min 0 max 5, totalRatings min 0 (run by save())
BookValid(book) ==
    /\ Finite(book.averageRating)
    /\ QLeq(Zero, book.averageRating) /\ QLeq(book.averageRating, Q(5, 1))
    /\ book.totalRatings >= 0

\* book.save(): the modified paths are written
SaveBook(b, loaded, changed) ==
    books' = [books EXCEPT
                ![b].averageRating =
                    IF changed.averageRating # loaded.averageRating
                    THEN changed.averageRating ELSE @,
                ![b].totalRatings =
                    IF changed.totalRatings # loaded.totalRatings
                    THEN changed.totalRatings ELSE @]

\* lines 290-299
RatedBook(book, oldRating, rating) ==
    LET sum == QMul(book.averageRating, Q(book.totalRatings, 1))
    IN  IF oldRating # Undefined
        THEN [book EXCEPT !.averageRating =
                Q(QAdd(QSub(sum, oldRating), rating)[1],
                  QAdd(QSub(sum, oldRating), rating)[2] * book.totalRatings)]
        ELSE [book EXCEPT !.totalRatings = @ + 1,
                          !.averageRating =
                            QDivInt(QAdd(sum, rating), book.totalRatings + 1)]

UnratedBookSameCount(book, rating) ==
    LET sum == QMul(book.averageRating, Q(book.totalRatings, 1))
    IN  [book EXCEPT !.averageRating =
                        IF book.totalRatings - 1 > 0
                        THEN QDivInt(QSub(sum, rating), book.totalRatings - 1)
                        ELSE Zero]

\* lines 398-402
UnratedBook(book, rating) ==
    LET sum == QMul(book.averageRating, Q(book.totalRatings, 1))
    IN  [book EXCEPT !.totalRatings = @ - 1,
                     !.averageRating =
                        IF book.totalRatings - 1 > 0
                        THEN QDivInt(QSub(sum, rating), book.totalRatings - 1)
                        ELSE Zero]

(* PATCH /books/:id/rating *)

\* a handler without the validRatings check
RatingFindUserUnchecked(u, b, rating) ==
    \E id \in {nreq + 1} :
        /\ Accept(id)
        /\ IF u \notin DOMAIN users \/ EntryIndex(users[u], b) = 0
           THEN /\ resps' = resps \cup {Response(id, u, "rating", 404, FALSE)}
                /\ UNCHANGED reqs
           ELSE LET i == EntryIndex(users[u], b)
                IN  /\ reqs' = Put(reqs, id,
                            Request("rating", u, b, "saveUser",
                                    [users[u] EXCEPT !.books[i].rating = rating],
                                    rating, users[u].books[i].rating,
                                    NoBook, NoBook))
                    /\ UNCHANGED resps
        /\ UNCHANGED <<users, books, tasks, hist, call, ret>>

\* lines 259-285: validation, User.findById, the entry, its new rating
RatingFindUser(u, b, rating) ==
    \E id \in {nreq + 1} :
        /\ Accept(id)
        /\ IF rating \notin validRatings
           THEN /\ resps' = resps \cup {Response(id, u, "rating", 400, FALSE)}
                /\ UNCHANGED reqs
           ELSE IF u \notin DOMAIN users \/ EntryIndex(users[u], b) = 0
           THEN /\ resps' = resps \cup {Response(id, u, "rating", 404, FALSE)}
                /\ UNCHANGED reqs
           ELSE LET i == EntryIndex(users[u], b)
                IN  /\ reqs' = Put(reqs, id,
                            Request("rating", u, b, "saveUser",
                                    [users[u] EXCEPT !.books[i].rating = rating],
                                    rating, users[u].books[i].rating,
                                    NoBook, NoBook))
                    /\ UNCHANGED resps
        /\ UNCHANGED <<users, books, tasks, hist, call, ret>>

\* line 285: await user.save()
RatingSaveUser(id) ==
    /\ id \in DOMAIN reqs
    /\ reqs[id].route = "rating" /\ reqs[id].pc = "saveUser"
    /\ IF VersionMatches(reqs[id].doc, reqs[id].user)
       THEN /\ SaveBooks(reqs[id].doc, reqs[id].user)
            /\ reqs' = [reqs EXCEPT ![id].pc = "findBook"]
            /\ UNCHANGED resps
       ELSE /\ Respond(id, "rating", 500, FALSE)
            /\ UNCHANGED users
    /\ UNCHANGED <<books, tasks, nreq, hist, call, ret>>

\* lines 288-299: await Book.findById(bookId), the new aggregates in memory
RatingFindBook(id) ==
    /\ id \in DOMAIN reqs
    /\ reqs[id].route = "rating" /\ reqs[id].pc = "findBook"
    /\ IF reqs[id].book \in DOMAIN books
       THEN /\ reqs' = [reqs EXCEPT
                    ![id].pc = "saveBook",
                    ![id].bloaded = books[reqs[id].book],
                    ![id].bdoc = RatedBook(books[reqs[id].book],
                                           reqs[id].oldRating, reqs[id].rating)]
            /\ UNCHANGED <<resps, tasks>>
       ELSE /\ Schedule(id, reqs[id].user, Wrote(reqs[id].doc.v + 1, {}))
            /\ Respond(id, "rating", 200, TRUE)
    /\ UNCHANGED <<users, books, nreq, hist, call, ret>>

\* lines 300-307: await book.save(), the detached recomputation, the answer
RatingSaveBook(id) ==
    /\ id \in DOMAIN reqs
    /\ reqs[id].route = "rating" /\ reqs[id].pc = "saveBook"
    /\ IF BookValid(reqs[id].bdoc)
       THEN /\ SaveBook(reqs[id].book, reqs[id].bloaded, reqs[id].bdoc)
            /\ Schedule(id, reqs[id].user, Wrote(reqs[id].doc.v + 1, {}))
            /\ Respond(id, "rating", 200, TRUE)
       ELSE /\ Respond(id, "rating", 500, FALSE)
            /\ UNCHANGED <<books, tasks>>
    /\ UNCHANGED <<users, nreq, hist, call, ret>>

(* PATCH /books/:id/status *)

StatusInputs == {"read"}

\* lines 218-247: validation, User.findById, the entry, its new status
StatusFindUser(u, b, status) ==
    \E id \in {nreq + 1} :
        /\ Accept(id)
        /\ IF status \notin Statuses
           THEN /\ resps' = resps \cup {Response(id, u, "status", 400, FALSE)}
                /\ UNCHANGED reqs
           ELSE IF u \notin DOMAIN users \/ EntryIndex(users[u], b) = 0
           THEN /\ resps' = resps \cup {Response(id, u, "status", 404, FALSE)}
                /\ UNCHANGED reqs
           ELSE LET i == EntryIndex(users[u], b)
                IN  /\ reqs' = Put(reqs, id,
                            Request("status", u, b, "saveUser",
                                    [users[u] EXCEPT !.books[i].status = status],
                                    Undefined, Undefined, NoBook, NoBook))
                    /\ UNCHANGED resps
        /\ UNCHANGED <<users, books, tasks, hist, call, ret>>

\* lines 248-250: await user.save(), the answer (no recomputation)
StatusSaveUser(id) ==
    /\ id \in DOMAIN reqs
    /\ reqs[id].route = "status" /\ reqs[id].pc = "saveUser"
    /\ IF VersionMatches(reqs[id].doc, reqs[id].user)
       THEN /\ SaveBooks(reqs[id].doc, reqs[id].user)
            /\ Respond(id, "status", 200, FALSE)
       ELSE /\ Respond(id, "status", 500, FALSE)
            /\ UNCHANGED users
    /\ UNCHANGED <<books, tasks, nreq, hist, call, ret>>

(* POST /books/import *)

\* the book document import creates from the Google Books volume (lines 55-73)
ImportedBook(g) == [Catalog[g] EXCEPT !.averageRating = Zero, !.totalRatings = 0]

\* lines 34-52: await Book.findOne({ googleBooksId }), the volume when missing
ImportFindBook(u, g) ==
    \E id \in {nreq + 1} :
        /\ Accept(id)
        /\ reqs' = Put(reqs, id,
                Request("import", u, g,
                        IF g \in DOMAIN books THEN "findUser" ELSE "createBook",
                        NewUser, Undefined, Undefined, NoBook, NoBook))
        /\ UNCHANGED <<users, books, tasks, resps, hist, call, ret>>

\* line 74: await book.save() of the new document; googleBooksId is unique
ImportCreateBook(id) ==
    /\ id \in DOMAIN reqs
    /\ reqs[id].route = "import" /\ reqs[id].pc = "createBook"
    /\ IF reqs[id].book \in DOMAIN books
       THEN /\ Respond(id, "import", 500, FALSE)
            /\ UNCHANGED books
       ELSE /\ books' = Put(books, reqs[id].book, ImportedBook(reqs[id].book))
            /\ reqs' = [reqs EXCEPT ![id].pc = "findUser"]
            /\ UNCHANGED resps
    /\ UNCHANGED <<users, tasks, nreq, hist, call, ret>>

\* lines 78-90: await User.findById(userId), the duplicate check, the push
ImportFindUser(id) ==
    /\ id \in DOMAIN reqs
    /\ reqs[id].route = "import" /\ reqs[id].pc = "findUser"
    /\ IF reqs[id].user \notin DOMAIN users
       THEN Respond(id, "import", 404, FALSE)
       ELSE IF EntryIndex(users[reqs[id].user], reqs[id].book) # 0
       THEN Respond(id, "import", 400, FALSE)
       ELSE /\ reqs' = [reqs EXCEPT ![id].pc = "saveUser",
                                    ![id].doc = users[reqs[id].user]]
            /\ UNCHANGED resps
    /\ UNCHANGED <<users, books, tasks, nreq, hist, call, ret>>

\* lines 92-104: await user.save() of the pushed entry: a $push onto the
\* stored array that increments the version key without checking it
ImportSaveUser(id) ==
    /\ id \in DOMAIN reqs
    /\ reqs[id].route = "import" /\ reqs[id].pc = "saveUser"
    /\ users' = [users EXCEPT
                    ![reqs[id].user].books =
                        Append(@, UserBook(reqs[id].book, "toRead", Undefined)),
                    ![reqs[id].user].v = @ + 1]
    /\ Respond(id, "import", 201, FALSE)
    /\ UNCHANGED <<books, tasks, nreq, hist, call, ret>>

(* DELETE /books/:id *)

\* a removal that treats a missing entry as already removed
DeleteFindUserIdempotent(u, b) ==
    \E id \in {nreq + 1} :
        /\ Accept(id)
        /\ IF u \notin DOMAIN users
           THEN /\ resps' = resps \cup {Response(id, u, "delete", 404, FALSE)}
                /\ UNCHANGED <<reqs, tasks>>
           ELSE IF EntryIndex(users[u], b) = 0
           THEN /\ resps' = resps \cup {Response(id, u, "delete", 200, TRUE)}
                /\ Schedule(id, u, Wrote(users[u].v, {}))
                /\ UNCHANGED reqs
           ELSE LET i     == EntryIndex(users[u], b)
                    entry == users[u].books[i]
                IN  /\ reqs' = Put(reqs, id,
                            Request("delete", u, b,
                                    IF entry.rating # Undefined
                                    THEN "findBook" ELSE "saveUser",
                                    [users[u] EXCEPT !.books = Splice(@, i)],
                                    entry.rating, entry.rating, NoBook, NoBook))
                    /\ UNCHANGED <<resps, tasks>>
        /\ UNCHANGED <<users, books, hist, call, ret>>

\* lines 376-406: User.findById, the entry; a rated entry first fetches the book
DeleteFindUser(u, b) ==
    \E id \in {nreq + 1} :
        /\ Accept(id)
        /\ IF u \notin DOMAIN users \/ EntryIndex(users[u], b) = 0
           THEN /\ resps' = resps \cup {Response(id, u, "delete", 404, FALSE)}
                /\ UNCHANGED reqs
           ELSE LET i     == EntryIndex(users[u], b)
                    entry == users[u].books[i]
                IN  /\ reqs' = Put(reqs, id,
                            Request("delete", u, b,
                                    IF entry.rating # Undefined
                                    THEN "findBook" ELSE "saveUser",
                                    [users[u] EXCEPT !.books = Splice(@, i)],
                                    entry.rating, entry.rating, NoBook, NoBook))
                    /\ UNCHANGED resps
        /\ UNCHANGED <<users, books, tasks, hist, call, ret>>

\* lines 395-402: await Book.findById(bookId), the new aggregates in memory
DeleteFindBook(id) ==
    /\ id \in DOMAIN reqs
    /\ reqs[id].route = "delete" /\ reqs[id].pc = "findBook"
    /\ IF reqs[id].book \in DOMAIN books /\ books[reqs[id].book].totalRatings > 0
       THEN reqs' = [reqs EXCEPT
                ![id].pc = "saveBook",
                ![id].bloaded = books[reqs[id].book],
                ![id].bdoc = UnratedBook(books[reqs[id].book], reqs[id].rating)]
       ELSE reqs' = [reqs EXCEPT ![id].pc = "saveUser"]
    /\ UNCHANGED <<users, books, tasks, resps, nreq, hist, call, ret>>

\* line 403: await book.save()
DeleteSaveBook(id) ==
    /\ id \in DOMAIN reqs
    /\ reqs[id].route = "delete" /\ reqs[id].pc = "saveBook"
    /\ IF BookValid(reqs[id].bdoc)
       THEN /\ SaveBook(reqs[id].book, reqs[id].bloaded, reqs[id].bdoc)
            /\ reqs' = [reqs EXCEPT ![id].pc = "saveUser"]
            /\ UNCHANGED resps
       ELSE /\ Respond(id, "delete", 500, FALSE)
            /\ UNCHANGED books
    /\ UNCHANGED <<users, tasks, nreq, hist, call, ret>>

\* lines 407-414: await user.save(), the detached recomputation, the answer
DeleteSaveUser(id) ==
    /\ id \in DOMAIN reqs
    /\ reqs[id].route = "delete" /\ reqs[id].pc = "saveUser"
    /\ IF VersionMatches(reqs[id].doc, reqs[id].user)
       THEN /\ SaveBooks(reqs[id].doc, reqs[id].user)
            /\ Schedule(id, reqs[id].user, Wrote(reqs[id].doc.v + 1, {}))
            /\ Respond(id, "delete", 200, TRUE)
       ELSE /\ Respond(id, "delete", 500, FALSE)
            /\ UNCHANGED <<users, tasks>>
    /\ UNCHANGED <<books, nreq, hist, call, ret>>

(* PATCH /books/:id/favorite and /unfavorite: one atomic updateOne each *)

\* lines 317-345
Favorite(u, b) ==
    \E id \in {nreq + 1} :
        /\ Accept(id)
        /\ IF u \notin DOMAIN users
           THEN /\ resps' = resps \cup {Response(id, u, "favorite", 404, FALSE)}
                /\ UNCHANGED <<users, tasks>>
           ELSE IF b \in users[u].favorites
           THEN /\ resps' = resps \cup {Response(id, u, "favorite", 400, FALSE)}
                /\ UNCHANGED <<users, tasks>>
           ELSE /\ users' = [users EXCEPT ![u].favorites = @ \cup {b}]
                /\ Schedule(id, u, Wrote(users[u].v, {b}))
                /\ resps' = resps \cup {Response(id, u, "favorite", 200, TRUE)}
        /\ UNCHANGED <<books, reqs, hist, call, ret>>

\* lines 348-373
Unfavorite(u, b) ==
    \E id \in {nreq + 1} :
        /\ Accept(id)
        /\ IF u \notin DOMAIN users
           THEN /\ resps' = resps \cup {Response(id, u, "unfavorite", 404, FALSE)}
                /\ UNCHANGED users
           ELSE IF b \notin users[u].favorites
           THEN /\ resps' = resps \cup {Response(id, u, "unfavorite", 400, FALSE)}
                /\ UNCHANGED users
           ELSE /\ users' = [users EXCEPT ![u].favorites = @ \ {b}]
                /\ resps' = resps \cup {Response(id, u, "unfavorite", 200, FALSE)}
        /\ UNCHANGED <<books, reqs, tasks, hist, call, ret>>

(* updateUserPreferences in flight *)

\* services/recommendation.ts lines 18-75: findById + populate, then the new
\* model in memory; hist records the library and favorites it was computed from
UpdateFind(t) ==
    /\ t \in tasks /\ t.pc = "find"
    /\ IF t.user \in DOMAIN users
       THEN /\ tasks' = (tasks \ {t}) \cup
                    {[t EXCEPT !.pc = "save", !.loaded = users[t.user],
                               !.computed = ComputePreferences(users[t.user], books)]}
            /\ hist' = hist \cup {[books |-> users[t.user].books,
                                   favorites |-> users[t.user].favorites]}
            /\ UNCHANGED resps
            /\ UNCHANGED call
       ELSE /\ tasks' = tasks \ {t}
            /\ resps' = IF t.awaited
                        THEN resps \cup {Response(t.id, t.user, "refresh", 404, FALSE)}
                        ELSE resps
            /\ call' = IF t.awaited THEN call
                                    ELSE [call EXCEPT !.logged = @ \cup {t.id}]
            /\ UNCHANGED hist
    /\ UNCHANGED <<users, books, reqs, nreq, ret>>

\* line 77: await user.save()
UpdateSave(t) ==
    /\ t \in tasks /\ t.pc = "save"
    /\ users' = [users EXCEPT ![t.user] = SavePreferences(@, t.loaded, t.computed)]
    /\ tasks' = tasks \ {t}
    /\ resps' = IF t.awaited
                THEN resps \cup {Response(t.id, t.user, "refresh", 200, FALSE)}
                ELSE resps
    /\ UNCHANGED <<books, reqs, nreq, hist, call, ret>>

\* a failure that would undo the favorite of the request that made the call
UpdateFailsRollsBack(t) ==
    /\ t \in tasks
    /\ tasks' = tasks \ {t}
    /\ users' = IF t.user \in DOMAIN users
                THEN [users EXCEPT ![t.user].favorites = @ \ t.wrote.favorites]
                ELSE users
    /\ resps' = IF t.awaited
                THEN resps \cup {Response(t.id, t.user, "refresh", 500, FALSE)}
                ELSE resps
    /\ call' = [call EXCEPT !.failed = @ \cup {t.id},
                            !.logged = IF t.awaited THEN @ ELSE @ \cup {t.id}]
    /\ UNCHANGED <<books, reqs, nreq, hist, ret>>

\* User.findById (line 18) or user.save() (line 77) rejects with a storage
\* error: nothing is written; routes/recommendation.ts line 51 answers 500 to
\* the request that awaits the call, .catch(console.error) (routes/books.ts
\* lines 304, 339, 412) logs it for a detached one
UpdateFails(t) ==
    /\ t \in tasks
    /\ tasks' = tasks \ {t}
    /\ resps' = IF t.awaited
                THEN resps \cup {Response(t.id, t.user, "refresh", 500, FALSE)}
                ELSE resps
    /\ call' = [call EXCEPT !.failed = @ \cup {t.id},
                            !.logged = IF t.awaited THEN @ ELSE @ \cup {t.id}]
    /\ UNCHANGED <<users, books, reqs, nreq, hist, ret>>

\* routes/recommendation.ts lines 41-53: POST /recommendations/refresh awaits
\* the recomputation before it answers
Refresh(u) ==
    \E id \in {nreq + 1} :
        /\ Accept(id)
        /\ tasks' = tasks \cup {Task(id, u, "find", NewUser, NewUser, TRUE,
                                     Wrote(0, {}))}
        /\ UNCHANGED <<users, books, reqs, resps, hist, call, ret>>

(* GET /recommendations without query parameters *)

\* routes/recommendation.ts line 12: Math.min(Number(req.query.limit) || 10, 50)
\* with limit an integer, or Undefined when the parameter is absent
RouteLimit(limit) ==
    LET n == IF limit = Undefined \/ limit = <<0>> THEN 10 ELSE limit[1]
    IN  IF n < 50 THEN n ELSE 50

\* a handler whose catch does not look at the message
RecommendationsFindUserNoMessage(u, route) ==
    \E id \in {nreq + 1} :
        /\ Accept(id)
        /\ IF u \notin DOMAIN users
           THEN /\ resps' = resps \cup {Response(id, u, route, 500, FALSE)}
                /\ UNCHANGED reqs
           ELSE /\ reqs' = Put(reqs, id,
                        Request(route, u, "", "findBooks", users[u],
                                Undefined, Undefined, NoBook, NoBook))
                /\ UNCHANGED resps
        /\ UNCHANGED <<users, books, tasks, hist, call, ret>>

\* services/recommendation.ts lines 142-159: await User.findById(userId)
RecommendationsFindUser(u, route) ==
    \E id \in {nreq + 1} :
        /\ Accept(id)
        /\ IF u \notin DOMAIN users
           THEN /\ resps' = resps \cup {Response(id, u, route, 404, FALSE)}
                /\ UNCHANGED reqs
           ELSE /\ reqs' = Put(reqs, id,
                        Request(route, u, "", "findBooks", users[u],
                                Undefined, Undefined, NoBook, NoBook))
                /\ UNCHANGED resps
        /\ UNCHANGED <<users, books, tasks, hist, call, ret>>

\* lines 183-223: await Book.find(query).sort(...).limit(limit * 5), scoring,
\* the answer; ret keeps the answer with the user document it was made from
RecommendationsFindBooks(id) ==
    /\ id \in DOMAIN reqs
    /\ reqs[id].route \in {"recommendations", "genres"}
    /\ reqs[id].pc = "findBooks"
    /\ LET user       == reqs[id].doc
           limit      == RouteLimit(Undefined)
           topGenres  == getTopFromMap(user.preferredGenres, 5)
           topAuthors == getTopFromMap(user.preferredAuthors, 5)
           found      == Find(books, BuildQuery(topGenres, topAuthors, Undefined))
       IN  \E order \in SortedOrders(books, found) :
                ret' = [id |-> id, user |-> user,
                        body |-> Recommend(user, books, CursorLimit(order, limit * 5),
                                           limit, topGenres, topAuthors)]
    /\ Respond(id, reqs[id].route, 200, FALSE)
    /\ UNCHANGED <<users, books, tasks, nreq, hist, call>>

\* Book.find rejects with a storage error: routes/recommendation.ts lines 19
\* and 36 answer 500
RecommendationsFails(id) ==
    /\ id \in DOMAIN reqs
    /\ reqs[id].route \in {"recommendations", "genres"}
    /\ reqs[id].pc = "findBooks"
    /\ Respond(id, reqs[id].route, 500, FALSE)
    /\ call' = [call EXCEPT !.failed = @ \cup {id}]
    /\ UNCHANGED <<users, books, tasks, nreq, hist, ret>>

----------------------------------------------------------------------------
(* The recommendation routes on large catalogs, for the limit parameter *)

MaxCatalog == 70

\* a catalog of n books numbered 1..n, all by one author in one genre, unrated
NumberedCatalog(n) == [b \in 1..n |-> BookDoc("X", <<"Fiction">>, Zero, 0)]

CatalogSizes == {0, 3, 52, MaxCatalog}

\* the limit query parameter: absent or non-numeric (Number() gives NaN), or
\* an integer
LimitParams ==
    {Undefined} \cup {<<n>> : n \in {-100, -20, -13, -1, 0, 1, 3, 10, 49, 50, 51, 100}}

\* the first n books, as import adds them
NumberedLibrary(n) == [i \in 1..n |-> UserBook(i, "toRead", Undefined)]

\* documents that tie on both sort keys, in the order they were inserted
InsertionOrder(ids) == [i \in 1..Cardinality(ids) |-> i]

InitLimit ==
    /\ \E owned \in {0, 2, 5} :
            users = [u \in {"u1"} |-> [NewUser EXCEPT !.books = NumberedLibrary(owned)]]
    /\ \E n \in CatalogSizes : books = NumberedCatalog(n)
    /\ Cardinality(DOMAIN books) >= Len(users["u1"].books)
    /\ Idle
    /\ \E limit \in LimitParams, route \in {"/", "/genres"} :
            call = [op |-> "GET /recommendations", route |-> route, user |-> "u1",
                    limit |-> limit, genre |-> Undefined, pool |-> <<>>]
    /\ ret = Undefined

\* routes/recommendation.ts lines 8-20 and 23-37 around getRecommendations
RecommendationsRoute(route, genre) ==
    /\ call.op = "GET /recommendations" /\ call.route = route
    /\ ret = Undefined
    /\ LET user       == users[call.user]
           limit      == RouteLimit(call.limit)
           topGenres  == getTopFromMap(user.preferredGenres, 5)
           topAuthors == getTopFromMap(user.preferredAuthors, 5)
           found      == Find(books, BuildQuery(topGenres, topAuthors, genre))
           pool       == CursorLimit(InsertionOrder(found), limit * 5)
       IN  /\ ret' = Recommend(user, books, pool, limit, topGenres, topAuthors)
           /\ call' = [call EXCEPT !.genre = genre, !.pool = pool]
    /\ UNCHANGED <<users, books, reqs, tasks, resps, nreq, hist>>

\* GET /recommendations
GetRecommendationsRoute == RecommendationsRoute("/", Undefined)

\* GET /recommendations/genres, with or without the genre parameter
GetGenresRoute == \E genre \in {Undefined, <<"Fiction">>} : RecommendationsRoute("/genres", genre)

NextLimit == GetRecommendationsRoute \/ GetGenresRoute

SpecLimit == InitLimit /\ [][NextLimit]_vars

----------------------------------------------------------------------------
(* The library of one user under concurrent requests *)

\* libraries as POST /books/import leaves them: entries to read, unrated
Imported == {<<UserBook("b1", "toRead", Undefined)>>,
             <<UserBook("b1", "toRead", Undefined),
               UserBook("b2", "toRead", Undefined)>>}

RatingInputs == {Q(3, 1), Q(5, 1), Q(6, 1)}

RequestBooks == {"b1", "b2"}

Init ==
    /\ \E lib \in Imported : users = [u \in {"u1"} |-> [NewUser EXCEPT !.books = lib]]
    /\ books = Catalog
    /\ Idle
    /\ call = [op |-> "requests", logged |-> {}, failed |-> {}]
    /\ ret = Undefined

\* rating, favorite-add and removal requests with their recomputations
NextTriggers ==
    \/ \E u \in DOMAIN users, b \in RequestBooks, r \in RatingInputs :
            RatingFindUser(u, b, r)
    \/ \E id \in DOMAIN reqs : RatingSaveUser(id)
    \/ \E id \in DOMAIN reqs : RatingFindBook(id)
    \/ \E id \in DOMAIN reqs : RatingSaveBook(id)
    \/ \E u \in DOMAIN users, b \in RequestBooks : DeleteFindUser(u, b)
    \/ \E id \in DOMAIN reqs : DeleteFindBook(id)
    \/ \E id \in DOMAIN reqs : DeleteSaveBook(id)
    \/ \E id \in DOMAIN reqs : DeleteSaveUser(id)
    \/ \E u \in DOMAIN users, b \in RequestBooks : Favorite(u, b)
    \/ \E t \in tasks : UpdateFind(t)
    \/ \E t \in tasks : UpdateSave(t)

SpecTriggers == Init /\ [][NextTriggers]_vars

Next ==
    \/ NextTriggers
    \/ \E u \in DOMAIN users, b \in RequestBooks, s \in StatusInputs :
            StatusFindUser(u, b, s)
    \/ \E id \in DOMAIN reqs : StatusSaveUser(id)
    \/ \E u \in DOMAIN users, b \in RequestBooks : Unfavorite(u, b)
    \/ \E u \in DOMAIN users : Refresh(u)
    \/ \E u \in DOMAIN users : RecommendationsFindUser(u, "recommendations")
    \/ \E id \in DOMAIN reqs : RecommendationsFindBooks(id)

Spec == Init /\ [][Next]_vars

(* The same requests with storage failures, and with a caller whose token
   names no user document. *)

\* "u0": authMiddleware accepts the token, User.findById finds nothing
Callers == DOMAIN users \cup {"u0"}

FailureRatings == {Q(5, 1)}

NextFailures ==
    \/ \E u \in Callers, b \in RequestBooks, r \in FailureRatings :
            RatingFindUser(u, b, r)
    \/ \E id \in DOMAIN reqs : RatingSaveUser(id)
    \/ \E id \in DOMAIN reqs : RatingFindBook(id)
    \/ \E id \in DOMAIN reqs : RatingSaveBook(id)
    \/ \E u \in Callers, b \in RequestBooks : DeleteFindUser(u, b)
    \/ \E id \in DOMAIN reqs : DeleteFindBook(id)
    \/ \E id \in DOMAIN reqs : DeleteSaveBook(id)
    \/ \E id \in DOMAIN reqs : DeleteSaveUser(id)
    \/ \E u \in Callers, b \in RequestBooks : Favorite(u, b)
    \/ \E t \in tasks : UpdateFind(t)
    \/ \E t \in tasks : UpdateSave(t)
    \/ \E t \in tasks : UpdateFails(t)
    \/ \E u \in Callers : Refresh(u)
    \/ \E u \in Callers, route \in {"recommendations", "genres"} :
            RecommendationsFindUser(u, route)
    \/ \E id \in DOMAIN reqs : RecommendationsFindBooks(id)
    \/ \E id \in DOMAIN reqs : RecommendationsFails(id)

SpecFailures == Init /\ [][NextFailures]_vars

(* Requests with invalid arguments and requests for books that are not in the
   library, next to valid ones. *)

\* Number(req.body.rating): 0, 6, 4.3, NaN (a non-numeric body), 3, 4.5
RatingValues == {Q(0, 1), Q(6, 1), Q(43, 10), Q(0, 0), Q(3, 1), Q(9, 2)}

\* b1 is in every library of Init, b3 in none
ValidationBooks == {"b1", "b3"}

ValidationStatuses == {"reading", "done"}

NextValidation ==
    \/ \E u \in DOMAIN users, b \in ValidationBooks, r \in RatingValues :
            RatingFindUser(u, b, r)
    \/ \E id \in DOMAIN reqs : RatingSaveUser(id)
    \/ \E id \in DOMAIN reqs : RatingFindBook(id)
    \/ \E id \in DOMAIN reqs : RatingSaveBook(id)
    \/ \E u \in DOMAIN users, b \in ValidationBooks, st \in ValidationStatuses :
            StatusFindUser(u, b, st)
    \/ \E id \in DOMAIN reqs : StatusSaveUser(id)
    \/ \E u \in DOMAIN users, b \in ValidationBooks : DeleteFindUser(u, b)
    \/ \E id \in DOMAIN reqs : DeleteFindBook(id)
    \/ \E id \in DOMAIN reqs : DeleteSaveBook(id)
    \/ \E id \in DOMAIN reqs : DeleteSaveUser(id)
    \/ \E t \in tasks : UpdateFind(t)
    \/ \E t \in tasks : UpdateSave(t)

SpecValidation == Init /\ [][NextValidation]_vars

(* Import, status, rating and removal requests of one user, overlapping *)

LibraryStatuses == {"reading"}

LibraryRatings == {Q(4, 1)}

NextLibrary ==
    \/ \E u \in DOMAIN users, g \in {"b3"} : ImportFindBook(u, g)
    \/ \E id \in DOMAIN reqs : ImportFindUser(id)
    \/ \E id \in DOMAIN reqs : ImportSaveUser(id)
    \/ \E u \in DOMAIN users, b \in RequestBooks, st \in LibraryStatuses :
            StatusFindUser(u, b, st)
    \/ \E id \in DOMAIN reqs : StatusSaveUser(id)
    \/ \E u \in DOMAIN users, b \in RequestBooks, r \in LibraryRatings :
            RatingFindUser(u, b, r)
    \/ \E id \in DOMAIN reqs : RatingSaveUser(id)
    \/ \E id \in DOMAIN reqs : RatingFindBook(id)
    \/ \E id \in DOMAIN reqs : RatingSaveBook(id)
    \/ \E u \in DOMAIN users, b \in RequestBooks : DeleteFindUser(u, b)
    \/ \E id \in DOMAIN reqs : DeleteFindBook(id)
    \/ \E id \in DOMAIN reqs : DeleteSaveBook(id)
    \/ \E id \in DOMAIN reqs : DeleteSaveUser(id)
    \/ \E t \in tasks : UpdateFind(t)
    \/ \E t \in tasks : UpdateSave(t)

SpecLibrary == Init /\ [][NextLibrary]_vars

(* POST /recommendations/refresh after the user's last mutation: favorites are
   added only while no refresh has been accepted, the recomputations they
   scheduled may still be running. *)

RefreshAccepted ==
    \/ \E t \in tasks : t.awaited
    \/ \E r \in resps : r.route = "refresh"

NextRefresh ==
    \/ \E u \in DOMAIN users, b \in RequestBooks : ~RefreshAccepted /\ Favorite(u, b)
    \/ \E u \in DOMAIN users : Refresh(u)
    \/ \E t \in tasks : UpdateFind(t)
    \/ \E t \in tasks : UpdateSave(t)
    \/ \E t \in tasks : UpdateFails(t)

SpecRefresh == Init /\ [][NextRefresh]_vars

----------------------------------------------------------------------------
(* Two users importing, rating and removing the same books *)

\* u1 and u2 have each imported b1; b2 is not in the catalog yet
InitShared ==
    /\ users = [u \in {"u1", "u2"} |->
                    [NewUser EXCEPT !.books = <<UserBook("b1", "toRead", Undefined)>>]]
    /\ books = [b \in {"b1"} |-> ImportedBook(b)]
    /\ Idle
    /\ call = [op |-> "requests", logged |-> {}, failed |-> {}]
    /\ ret = Undefined

SharedRatings == {Q(3, 1), Q(5, 1)}

SharedBooks == {"b1"}

AcceptShared ==
    \/ \E u \in DOMAIN users, g \in {"b1", "b2"} : ImportFindBook(u, g)
    \/ \E u \in DOMAIN users, b \in SharedBooks, r \in SharedRatings :
            RatingFindUser(u, b, r)
    \/ \E u \in DOMAIN users, b \in SharedBooks : DeleteFindUser(u, b)

StepShared ==
    \/ \E id \in DOMAIN reqs : ImportCreateBook(id)
    \/ \E id \in DOMAIN reqs : ImportFindUser(id)
    \/ \E id \in DOMAIN reqs : ImportSaveUser(id)
    \/ \E id \in DOMAIN reqs : RatingSaveUser(id)
    \/ \E id \in DOMAIN reqs : RatingFindBook(id)
    \/ \E id \in DOMAIN reqs : RatingSaveBook(id)
    \/ \E id \in DOMAIN reqs : DeleteFindBook(id)
    \/ \E id \in DOMAIN reqs : DeleteSaveBook(id)
    \/ \E id \in DOMAIN reqs : DeleteSaveUser(id)
    \/ \E t \in tasks : UpdateFind(t)
    \/ \E t \in tasks : UpdateSave(t)

NextShared == AcceptShared \/ StepShared

SpecShared == InitShared /\ [][NextShared]_vars

\* the same requests, each accepted only when no other is in flight
NextSerial == (reqs = <<>> /\ AcceptShared) \/ StepShared

SpecSerial == InitShared /\ [][NextSerial]_vars

----------------------------------------------------------------------------
(* Properties of the recomputation (checked under SpecPrefs) *)

\* the snapshot the recomputation under study ran on
TheUser == users["u1"]
Snapshot == TheUser.books
AfterUpdate == call.op = "updateUserPreferences" /\ call.runs >= 1

\* the weight of an entry as the specification words it
SpecWeight(e, favs) ==
    LET base   == IF e.rating # Undefined /\ QLess(Q(5, 2), e.rating)
                  THEN QDivInt(QSub(e.rating, Q(2, 1)), 3) ELSE Zero
        bonus  == IF e.book \in favs THEN QAdd(base, Q(1, 2)) ELSE base
    IN  IF bonus = Zero /\ e.status = "toRead" THEN Q(1, 10) ELSE bonus

RECURSIVE SpecSum(_, _, _)
SpecSum(lib, favs, idx) ==
    IF idx = {} THEN Zero
    ELSE LET i == CHOOSE j \in idx : TRUE
         IN  QAdd(SpecWeight(lib[i], favs), SpecSum(lib, favs, idx \ {i}))

Contributing(lib, favs) ==
    {i \in DOMAIN lib : lib[i].book \in DOMAIN books
                        /\ QLess(Zero, SpecWeight(lib[i], favs))}

C6_Idempotent ==
    (call.op = "updateUserPreferences" /\ call.runs = 2)
        => ModelOf(TheUser) = call.first

C6_Witness ==
    /\ call.op = "updateUserPreferences" /\ call.runs = 2
    /\ call.first # call.prior
    /\ call.first.preferredGenres # <<>>
    /\ call.prior.preferredGenres # <<>>

SpecMean(lib) ==
    LET rated == {i \in DOMAIN lib : lib[i].rating # Undefined}
    IN  IF rated = {} THEN Undefined
        ELSE QDivInt(QSum([i \in DOMAIN lib |->
                            IF i \in rated THEN lib[i].rating ELSE Zero]),
                     Cardinality(rated))

\* C7: after updateUserPreferences on snapshot S, totalBooksRead is the number
\* of entries with status read and averageRating is the mean of the ratings
\* present, absent when S has no rating, whatever the previous model held.
C7_Rollups ==
    AfterUpdate =>
        /\ TheUser.totalBooksRead =
              <<Cardinality({i \in DOMAIN Snapshot : Snapshot[i].status = "read"})>>
        /\ TheUser.averageRating = SpecMean(Snapshot)

\* entries that are the only one of their author: their contribution is what
\* preferredAuthors holds for that author
SoleByAuthor(lib) ==
    {i \in DOMAIN lib : \A j \in DOMAIN lib :
        books[lib[j].book].author = books[lib[i].book].author => j = i}

Contributed(i) == MapGet(TheUser.preferredAuthors, books[Snapshot[i].book].author)

FallbackCase(e) ==
    e.status = "toRead" /\ (e.rating = Undefined \/ QLeq(e.rating, Q(5, 2)))

\* C8 as stated: for every entry, whatever its rating and status, the weight
\* contributed when its book is a favorite is exactly 0.5 more than the weight
\* the same entry contributes when it is not.
C8_FavoriteBonusAlways ==
    AfterUpdate =>
        \A i \in SoleByAuthor(Snapshot) :
            Snapshot[i].book \in TheUser.favorites
            => Contributed(i) = QAdd(EntryWeight(Snapshot[i], {}), Q(1, 2))

\* C8 amended: the favorite weight is exactly 0.5 more than the non-favorite
\* weight unless the entry is toRead with a rating absent or <= 2.5; there the
\* favorite weighs 0.5 and the non-favorite 0.1.
C8_FavoriteBonus ==
    AfterUpdate =>
        \A i \in SoleByAuthor(Snapshot) :
            Snapshot[i].book \in TheUser.favorites
            => IF FallbackCase(Snapshot[i])
               THEN /\ Contributed(i) = Q(1, 2)
                    /\ EntryWeight(Snapshot[i], {}) = Q(1, 10)
               ELSE Contributed(i) = QAdd(EntryWeight(Snapshot[i], {}), Q(1, 2))

\* a favorite read book rated 4: 2/3 + 1/2
C8_Witness ==
    /\ AfterUpdate
    /\ \E i \in SoleByAuthor(Snapshot) :
        /\ Snapshot[i].book \in TheUser.favorites
        /\ Snapshot[i].rating = Q(4, 1)
        /\ Snapshot[i].status = "read"
        /\ Contributed(i) = Q(7, 6)

ZeroEntry(e, favs) ==
    /\ e.rating = Undefined \/ QLeq(e.rating, Q(5, 2))
    /\ e.book \notin favs
    /\ e.status # "toRead"

\* C9: an entry with rating absent or <= 2.5, not a favorite and not toRead
\* weighs 0 and adds nothing: a genre or author found only on such entries is
\* not a key of the stored model.
C9_ZeroWeightExcluded ==
    AfterUpdate =>
        LET lib  == Snapshot
            favs == TheUser.favorites
            zero == {i \in DOMAIN lib : ZeroEntry(lib[i], favs)}
        IN  /\ \A i \in zero : EntryWeight(lib[i], favs) = Zero
            /\ \A g \in AllGenres :
                (\A i \in DOMAIN lib :
                    g \in Range(books[lib[i].book].genres) => i \in zero)
                => /\ g \notin MapKeys(TheUser.preferredGenres)
                   /\ MapGet(TheUser.preferredGenres, g) = Zero
            /\ \A a \in AllAuthors :
                (\A i \in DOMAIN lib : books[lib[i].book].author = a => i \in zero)
                => /\ a \notin MapKeys(TheUser.preferredAuthors)
                   /\ MapGet(TheUser.preferredAuthors, a) = Zero

\* b3 read and rated exactly 2.5 next to a book that does count
C9_Witness ==
    /\ AfterUpdate
    /\ \E i \in DOMAIN Snapshot :
        /\ Snapshot[i].book = "b3" /\ Snapshot[i].rating = Q(5, 2)
        /\ ZeroEntry(Snapshot[i], TheUser.favorites)
    /\ "NonFiction" \notin MapKeys(TheUser.preferredGenres)
    /\ "Fiction" \in MapKeys(TheUser.preferredGenres)

----------------------------------------------------------------------------
(* Properties of getRecommendations (checked under SpecRec) *)

Returned == call.op = "getRecommendations" /\ ret # Undefined /\ "recommendations" \in DOMAIN ret

ReturnedIds == {ret.recommendations[i].id : i \in DOMAIN ret.recommendations}

\* C1: no book returned by getRecommendations has an id that is in the library
\* of the user as that request read it, whatever the limit and the filter.
C1_NoOwnedBook ==
    Returned => ReturnedIds \cap {users[call.user].books[i].book :
                                    i \in DOMAIN users[call.user].books} = {}

\* an owned book matched the query and was fetched first (the most popular
\* candidate), and other books were returned
C1_Witness ==
    /\ Returned
    /\ call.pool # <<>>
    /\ call.pool[1] \in call.owned
    /\ ReturnedIds # {}
    /\ call.genreFilter # Undefined

Tagged(g) == {b \in DOMAIN books : g \in Range(books[b].genres)}

\* C10: with an explicit genre filter G a catalog book is a candidate if and
\* only if its genres contain G, whatever the user's preferences: every
\* returned book is tagged G, and a book tagged G that matches none of the
\* user's top genres or authors is a candidate too.
C10_FilterAlone ==
    (Returned /\ call.genreFilter # Undefined)
        => /\ call.candidates = Tagged(call.genreFilter[1])
           /\ ReturnedIds \subseteq Tagged(call.genreFilter[1])

\* the preference match of a book: the user's weights of its genres plus twice
\* the user's weight of its author
PreferenceMatch(book, user) ==
    QAdd(QSum([i \in DOMAIN book.genres |->
                    MapGet(user.preferredGenres, book.genres[i])]),
         QMul(Q(2, 1), MapGet(user.preferredAuthors, book.author)))

HasPreferences(user) == user.preferredGenres # <<>> \/ user.preferredAuthors # <<>>

SameAggregates(b, c) ==
    /\ b.averageRating = c.averageRating
    /\ b.totalRatings = c.totalRatings

\* C12: for a user with preferences, of two returned books with the same
\* averageRating and totalRatings the one with the strictly greater preference
\* match comes first.
C12_PreferenceOrder ==
    (Returned /\ HasPreferences(users[call.user])) =>
        \A i, j \in DOMAIN ret.recommendations :
            LET first  == books[ret.recommendations[i].id]
                second == books[ret.recommendations[j].id]
            IN  (i < j /\ SameAggregates(first, second)) =>
                    QLeq(PreferenceMatch(second, users[call.user]),
                         PreferenceMatch(first, users[call.user]))

\* two rated books with equal aggregates were returned, the one with the
\* greater match first although the store had fetched it later
C12_Witness ==
    /\ Returned /\ HasPreferences(users[call.user])
    /\ \E i, j \in DOMAIN ret.recommendations :
        LET first  == books[ret.recommendations[i].id]
            second == books[ret.recommendations[j].id]
        IN  /\ i < j /\ SameAggregates(first, second)
            /\ first.totalRatings > 0
            /\ QLess(PreferenceMatch(second, users[call.user]),
                     PreferenceMatch(first, users[call.user]))
            /\ \E k, l \in DOMAIN call.pool :
                    /\ k < l
                    /\ call.pool[k] = ret.recommendations[j].id
                    /\ call.pool[l] = ret.recommendations[i].id

----------------------------------------------------------------------------
(* Properties of the library routes (checked under Spec and SpecTriggers) *)

Quiescent == reqs = <<>> /\ tasks = {}

SameMap(m1, m2) ==
    /\ MapKeys(m1) = MapKeys(m2)
    /\ \A k \in MapKeys(m1) : MapGet(m1, k) = MapGet(m2, k)

\* C2: once every rating, favorite-add and removal request and every
\* recomputation they scheduled has completed, the stored preferredGenres and
\* preferredAuthors are the maps a fresh recomputation of the final library
\* and favorites gives.
C2_EventuallyConsistent ==
    (Quiescent /\ \E r \in resps : r.scheduled) =>
        \A u \in DOMAIN users :
            LET fresh == ComputePreferences(users[u], books)
            IN  /\ SameMap(users[u].preferredGenres, fresh.preferredGenres)
                /\ SameMap(users[u].preferredAuthors, fresh.preferredAuthors)

Mutations == {"rating", "favorite", "unfavorite", "delete"}

\* C3: every successful rating, favorite add, favorite removal and library
\* removal schedules a preference recomputation for the acting user.
C3_MutationsSchedule ==
    \A r \in resps : (r.route \in Mutations /\ r.code = 200) => r.scheduled

\* the four values one recomputation owes to the snapshot it read
SnapshotModel(snapshot) ==
    LET user     == [NewUser EXCEPT !.books = snapshot.books,
                                    !.favorites = snapshot.favorites]
        computed == ComputePreferences(user, books)
    IN  [ModelOf(computed) EXCEPT !.averageRating = SpecMean(snapshot.books)]

\* C4: the stored preference model is always the initial model or the four
\* values of one single recomputation from one single library snapshot.
C4_ModelFromOneSnapshot ==
    \A u \in DOMAIN users :
        \/ ModelOf(users[u]) = ModelOf(NewUser)
        \/ \E snapshot \in hist : ModelOf(users[u]) = SnapshotModel(snapshot)

----------------------------------------------------------------------------
(* Properties of recommendation requests among the library requests (Spec) *)

Served == ret # Undefined

\* the ids in the order returned
ServedIds == [i \in DOMAIN ret.body.recommendations |-> ret.body.recommendations[i].id]

\* C11: a recommendation request served for a user whose library and favorites
\* are both empty at that moment answers basedOn.topGenres = [] and
\* basedOn.topAuthors = [] and orders the books by averageRating *
\* ln(totalRatings + 1) alone.
C11_EmptyUserPopularityOnly ==
    (Served /\ ret.user.books = <<>> /\ ret.user.favorites = {}) =>
        /\ ret.body.basedOn.topGenres = <<>>
        /\ ret.body.basedOn.topAuthors = <<>>
        /\ \A i, j \in DOMAIN ServedIds :
                i < j => QLeq(PopularityScore(books[ServedIds[j]]),
                              PopularityScore(books[ServedIds[i]]))

----------------------------------------------------------------------------
(* Properties of the limit parameter (SpecLimit) *)

Answered == call.op = "GET /recommendations" /\ ret # Undefined

IntegerLimit == call.limit # Undefined /\ call.limit[1] >= 1 /\ call.limit[1] <= 50

\* C13: whatever the limit parameter (absent, 0, negative, above 50), the
\* response holds at most 50 recommendations, at most limit of them when limit
\* is an integer from 1 to 50, and the pool fetched is at most 5 times that
\* bound.
C13_LimitCapped ==
    Answered =>
        /\ Len(ret.recommendations) <= 50
        /\ Len(call.pool) <= 5 * 50
        /\ IntegerLimit =>
            /\ Len(ret.recommendations) <= call.limit[1]
            /\ Len(call.pool) <= 5 * call.limit[1]

----------------------------------------------------------------------------
(* Properties of the book aggregates (SpecSerial, SpecShared) *)

\* request id is answered 200 by this step
Succeeds(id) ==
    /\ id \in DOMAIN reqs /\ id \notin DOMAIN reqs'
    /\ \E r \in resps' \ resps : r.id = id /\ r.code = 200

OldSum(book) == QMul(book.averageRating, Q(book.totalRatings, 1))

\* C14: a rating or removal request that runs alone updates the aggregates
\* exactly: a first rating r gives count + 1 and (oldSum + r) / newCount; a
\* change from o to r keeps the count and gives (oldSum - o + r) / count; the
\* removal of an entry rated r gives count - 1 and (oldSum - r) / newCount, or
\* 0 at count 0; the removal of an unrated entry changes neither.
C14_ExactAggregates ==
    [][\A id \in DOMAIN reqs :
        LET q   == reqs[id]
            new == books'[q.book]
        IN  /\ (Succeeds(id) /\ q.route = "rating" /\ q.oldRating = Undefined) =>
                    /\ new.totalRatings = books[q.book].totalRatings + 1
                    /\ new.averageRating =
                            QDivInt(QAdd(OldSum(books[q.book]), q.rating),
                                    books[q.book].totalRatings + 1)
            /\ (Succeeds(id) /\ q.route = "rating" /\ q.oldRating # Undefined) =>
                    /\ new.totalRatings = books[q.book].totalRatings
                    /\ new.averageRating =
                            QDivInt(QAdd(QSub(OldSum(books[q.book]), q.oldRating),
                                         q.rating),
                                    books[q.book].totalRatings)
            /\ (Succeeds(id) /\ q.route = "delete" /\ q.rating # Undefined) =>
                    /\ new.totalRatings = q.bloaded.totalRatings - 1
                    /\ new.averageRating =
                            IF q.bloaded.totalRatings = 1 THEN Zero
                            ELSE QDivInt(QSub(OldSum(q.bloaded), q.rating),
                                         q.bloaded.totalRatings - 1)
            /\ (Succeeds(id) /\ q.route = "delete" /\ q.rating = Undefined) =>
                    /\ new = books[q.book]
                    /\ q.bloaded = NoBook
      ]_vars

\* the spec's example: average 4 over two ratings, the entry rated 5 removed,
\* one rating of average 3 left
C14_Witness ==
    /\ reqs = <<>>
    /\ \E r \in resps : r.route = "delete" /\ r.code = 200
    /\ users["u1"].books = <<>>
    /\ users["u2"].books = <<UserBook("b1", "toRead", Q(3, 1))>>
    /\ books["b1"].totalRatings = 1
    /\ books["b1"].averageRating = Q(3, 1)

\* a rating request holding an average it computed with a zero divisor
DividedByZero(q) ==
    /\ q.route = "rating" /\ q.pc = "saveBook"
    /\ q.oldRating # Undefined
    /\ q.bloaded.totalRatings = 0

\* C15: under any interleaving of import, rating and removal requests of any
\* users, a book with totalRatings = 0 has averageRating = 0, totalRatings is
\* never negative, and no rating request divides by a totalRatings of 0.
C15_ZeroCountZeroAverage ==
    /\ \A b \in DOMAIN books :
        /\ books[b].totalRatings >= 0
        /\ books[b].totalRatings = 0 => books[b].averageRating = Zero
    /\ \A id \in DOMAIN reqs : ~DividedByZero(reqs[id])

\* C16: a library holds at most one entry per book, also after concurrent
\* imports of one book by one user; an import of a book already in the library
\* is answered 400, so every import answered 201 added the only entry.
C16_OneEntryPerBook ==
    \A u \in DOMAIN users :
        \A i, j \in DOMAIN users[u].books :
            users[u].books[i].book = users[u].books[j].book => i = j

----------------------------------------------------------------------------
(* Properties of the failing recomputations (SpecFailures) *)

\* the detached recomputations that end in this step with a logged failure
FailedNow == {t \in tasks : ~t.awaited /\ t \notin tasks'
                                /\ t.id \in call'.logged \ call.logged}

AnsweredSuccess(id) == \E r \in resps : r.id = id /\ r.code = 200 /\ r.scheduled

\* C17: when the recomputation scheduled by a rating, favorite or removal
\* request fails, that request has already answered success, the step writes
\* nothing (its mutation of the library, the favorites and the book aggregates
\* stays, the stored preference model is left as it was), and every detached
\* recomputation that is still running belongs to a request that has answered
C17_FailureLeavesRequest ==
    [][ /\ (\A t \in FailedNow :
                /\ AnsweredSuccess(t.id)
                /\ users' = users /\ books' = books /\ resps' = resps)
        /\ (\A d \in tasks' :
                ~d.awaited => \E r \in resps' : r.id = d.id /\ r.code = 200) ]_vars

\* a rating request answered 200, its recomputation failed and was logged, the
\* rating is in the library and the stored model is still the empty one
C17_Witness ==
    \E r \in resps :
        /\ r.route = "rating" /\ r.code = 200 /\ r.id \in call.logged
        /\ \E i \in DOMAIN users[r.user].books :
                users[r.user].books[i].rating = Q(5, 1)
        /\ ModelOf(users[r.user]) = ModelOf(NewUser)
        /\ \E b \in DOMAIN books : books[b].totalRatings > 0

----------------------------------------------------------------------------
(* Ordering of a request's writes and its recomputation (SpecTriggers) *)

\* the user document a detached recomputation works from: the one it has read,
\* or the stored one it is about to read
DocumentRead(t) == IF t.pc = "save" THEN t.loaded ELSE users[t.user]

----------------------------------------------------------------------------
(* Staleness of the model a recommendation request reads (Spec) *)

\* the libraries from which one import, status change, rating or removal
\* leads to the library of user
LibrariesBefore(user) ==
    LET lib == user.books
    IN  {Splice(lib, i) : i \in DOMAIN lib}
        \cup {[lib EXCEPT ![i].status = st] : i \in DOMAIN lib, st \in Statuses}
        \cup {[lib EXCEPT ![i].rating = r] :
                    i \in DOMAIN lib, r \in validRatings \cup {Undefined}}
        \cup {SubSeq(lib, 1, i) \o <<UserBook(b, st, r)>> \o SubSeq(lib, i + 1, Len(lib)) :
                    i \in 0..Len(lib),
                    b \in {c \in BookIds : EntryIndex(user, c) = 0},
                    st \in Statuses, r \in validRatings \cup {Undefined}}

\* the favorites from which one favorite or unfavorite leads to those of user
FavoritesBefore(user) ==
    {user.favorites \ {b} : b \in user.favorites}
    \cup {user.favorites \cup {b} : b \in BookIds}

\* the library and favorites states at most one mutation behind those of user
AtMostOneBehind(user) ==
    {user}
    \cup {[user EXCEPT !.books = lib] : lib \in LibrariesBefore(user)}
    \cup {[user EXCEPT !.favorites = fav] : fav \in FavoritesBefore(user)}

\* C19: the preference model a recommendation request reads is the result of
\* the recomputation for a library and favorites state at most one mutation
\* (import, status change, rating, favorite, unfavorite, removal) behind the
\* state the request reads with it
C19_StaleByAtMostOne ==
    Served =>
        \E state \in AtMostOneBehind(ret.user) :
            /\ SameMap(ret.user.preferredGenres,
                       ComputePreferences(state, books).preferredGenres)
            /\ SameMap(ret.user.preferredAuthors,
                       ComputePreferences(state, books).preferredAuthors)

----------------------------------------------------------------------------
(* Answers of the recommendation endpoints (SpecFailures) *)

RecommendationRoutes == {"recommendations", "genres", "refresh"}

\* C20: GET /recommendations, GET /recommendations/genres and POST
\* /recommendations/refresh answer 404 when the caller's id names no user, in
\* a step that writes nothing, 500 when the call fails in any other way, and
\* 200 otherwise
C20_NotFoundOr500 ==
    [][\A r \in resps' \ resps :
            r.route \in RecommendationRoutes =>
                IF r.id \in call'.failed THEN r.code = 500
                ELSE IF r.user \notin DOMAIN users
                THEN r.code = 404 /\ users' = users /\ books' = books
                ELSE r.code = 200]_vars

\* the unknown caller has been answered 404 by the refresh and by a GET, and a
\* GET of an existing user whose query failed has been answered 500
C20_Witness ==
    /\ \E r \in resps : r.user = "u0" /\ r.route = "refresh" /\ r.code = 404
    /\ \E r \in resps : r.user = "u0" /\ r.route = "genres" /\ r.code = 404
    /\ \E r \in resps : r.user \in DOMAIN users /\ r.route = "recommendations"
                            /\ r.code = 500

----------------------------------------------------------------------------
(* The synchronous refresh (SpecRefresh) *)

\* the stored maps of u are those a recomputation of the stored library and
\* favorites gives
ModelCurrent(u) ==
    /\ SameMap(users[u].preferredGenres,
               ComputePreferences(users[u], books).preferredGenres)
    /\ SameMap(users[u].preferredAuthors,
               ComputePreferences(users[u], books).preferredAuthors)

\* C21: once POST /recommendations/refresh has answered 200, and with no
\* mutation of the user since the refresh was accepted, the stored model (the
\* one a later recommendation request reads) is the recomputation of the current
\* library and favorites
C21_RefreshedModelCurrent ==
    \A r \in resps : r.route = "refresh" /\ r.code = 200 => ModelCurrent(r.user)

\* the parts of C21 that concern the refresh request alone: it answers 200 in
\* the step that stores the model it computed, and never when its call failed
RefreshAnswersAfterSave ==
    [][\A r \in resps' \ resps :
            r.route = "refresh" /\ r.code = 200 =>
                \E t \in tasks :
                    /\ t.id = r.id /\ t.awaited /\ t.pc = "save"
                    /\ r.id \notin call'.failed
                    /\ users' = [users EXCEPT
                            ![t.user] = SavePreferences(@, t.loaded, t.computed)]]_vars

----------------------------------------------------------------------------
(* Invalid arguments of the recommendation endpoints (SpecLimit) *)

\* limit=0 or a negative limit (a non-numeric one reads as absent in LimitParams)
MalformedLimit == call.limit # Undefined /\ call.limit[1] <= 0

\* GET /recommendations/genres without the genre parameter
MissingGenre == call.route = "/genres" /\ call.genre = Undefined

\* C22: a request with a malformed limit, or to /recommendations/genres
\* without a genre, is rejected before anything is computed: it is never
\* answered with a list of recommendations
C22_InvalidArgumentsRejected == Answered => ~(MalformedLimit \/ MissingGenre)

----------------------------------------------------------------------------
(* Rejected requests (SpecValidation) *)

\* the step answers the request it accepts with code and does nothing else:
\* no document changes, no handler stays, no recomputation is scheduled
RejectedWith(route, code) ==
    /\ \E r \in resps' \ resps : r.id = nreq' /\ r.route = route /\ r.code = code
    /\ users' = users /\ books' = books /\ tasks' = tasks /\ reqs' = reqs

StoredRatings(us) ==
    UNION {{us[u].books[i].rating : i \in DOMAIN us[u].books} : u \in DOMAIN us}

\* C23: a rating request whose value is not one of 1, 1.5, ..., 5 is answered
\* 400 in a step that leaves the user's entry, the book's aggregates and the
\* preference model as they were and schedules no recomputation; every rating
\* in a library is one of those values or absent
C23_InvalidRatingRejected ==
    [][ /\ (\A u \in DOMAIN users, b \in ValidationBooks :
              \A r \in RatingValues \ validRatings :
                    RatingFindUser(u, b, r) => RejectedWith("rating", 400))
        /\ StoredRatings(users') \subseteq validRatings \cup {Undefined} ]_vars

\* a rating request has been answered 400, another has stored 4.5 and the
\* book's aggregates count it
C23_Witness ==
    /\ \E r \in resps : r.route = "rating" /\ r.code = 400
    /\ Q(9, 2) \in StoredRatings(users)
    /\ \E r \in resps : r.route = "rating" /\ r.code = 200
    /\ books["b1"].totalRatings = 1

----------------------------------------------------------------------------
(* Order and choice of the returned books (SpecRec) *)

\* the score line 196-199 gives a candidate, before rounding
ScoreOf(b) ==
    IF HasPreferences(users[call.user])
    THEN calculateScore(books[b], users[call.user].preferredGenres,
                        users[call.user].preferredAuthors)
    ELSE PopularityScore(books[b])

\* the unowned books of the fetched pool that were not returned
LeftOut == (Range(call.pool) \ call.owned) \ ReturnedIds

\* C25: the returned list is in non-increasing order of score, before and
\* after rounding to 2 decimals, and no unowned book of the fetched pool that
\* was left out has a greater score than a returned one
C25_TopOfPoolByScore ==
    Returned =>
        /\ \A i, j \in DOMAIN ret.recommendations :
                i < j =>
                    /\ QLeq(ScoreOf(ret.recommendations[j].id),
                            ScoreOf(ret.recommendations[i].id))
                    /\ QLeq(ret.recommendations[j].score, ret.recommendations[i].score)
        /\ \A b \in LeftOut, i \in DOMAIN ret.recommendations :
                QLeq(ScoreOf(b), ScoreOf(ret.recommendations[i].id))

\* two books were returned in the reverse of the order in which the store
\* fetched them, with different scores, and a fetched unowned book with a
\* still lower score was left out
C25_Witness ==
    /\ Returned /\ LeftOut # {}
    /\ \E i, j \in DOMAIN ret.recommendations :
            /\ i < j
            /\ QLess(ScoreOf(ret.recommendations[j].id), ScoreOf(ret.recommendations[i].id))
            /\ \E k, l \in DOMAIN call.pool :
                    /\ k < l
                    /\ call.pool[k] = ret.recommendations[j].id
                    /\ call.pool[l] = ret.recommendations[i].id
            /\ \E b \in LeftOut : QLess(ScoreOf(b), ScoreOf(ret.recommendations[j].id))

----------------------------------------------------------------------------
(* Top genres and authors, and the candidates they select (SpecTop) *)

\* list holds the top keys of map: every key when there are at most 5, else 5
\* of them; in non-increasing weight; no key left out weighs more than a
\* listed one
TopFive(list, map) ==
    /\ Len(list) = (IF Len(map) < 5 THEN Len(map) ELSE 5)
    /\ Range(list) \subseteq MapKeys(map)
    /\ \A i, j \in DOMAIN list :
            i < j => /\ list[i] # list[j]
                     /\ QLeq(MapGet(map, list[j]), MapGet(map, list[i]))
    /\ \A k \in MapKeys(map) \ Range(list), i \in DOMAIN list :
            QLeq(MapGet(map, k), MapGet(map, list[i]))

\* the catalog books with a genre among topGenres or their author among
\* topAuthors; all of them when both lists are empty
Eligible(topGenres, topAuthors) ==
    IF topGenres = <<>> /\ topAuthors = <<>> THEN DOMAIN books
    ELSE {b \in DOMAIN books :
            \/ Range(books[b].genres) \cap Range(topGenres) # {}
            \/ books[b].author \in Range(topAuthors)}

\* C26: without a genre filter the candidates of the query are exactly the
\* catalog books with a genre among the user's top 5 genres or their author
\* among the user's top 5 authors, all books when the user has neither; basedOn
\* holds those two lists, each the top (at most 5) keys of its map in
\* non-increasing weight
C26_TopFiveSelectCandidates ==
    (Returned /\ call.genreFilter = Undefined) =>
        /\ TopFive(ret.basedOn.topGenres, users[call.user].preferredGenres)
        /\ TopFive(ret.basedOn.topAuthors, users[call.user].preferredAuthors)
        /\ call.candidates = Eligible(ret.basedOn.topGenres, ret.basedOn.topAuthors)

\* seven genres carry weight, five are listed with one of the heaviest stored
\* after the fifth key, a key as heavy as a listed one is left out, book 9 is a
\* candidate through its author alone and book 10 is not a candidate
C26_Witness ==
    /\ Returned
    /\ Len(users[call.user].preferredGenres) = 7
    /\ Len(ret.basedOn.topGenres) = 5
    /\ ret.basedOn.topGenres[1] \in {"g6", "g7"}
    /\ \E k \in MapKeys(users[call.user].preferredGenres) \ Range(ret.basedOn.topGenres) :
            MapGet(users[call.user].preferredGenres, k)
                = MapGet(users[call.user].preferredGenres, ret.basedOn.topGenres[5])
    /\ 9 \in call.candidates /\ 10 \notin call.candidates

----------------------------------------------------------------------------
(* Book aggregates against the libraries (SpecShared) *)

\* the ratings the library entries of all users carry for book b, as a bag
RatingsFor(b) ==
    LET entries == UNION {{<<u, i>> : i \in {j \in DOMAIN users[u].books :
                                                /\ users[u].books[j].book = b
                                                /\ users[u].books[j].rating # Undefined}} :
                            u \in DOMAIN users}
    IN  [e \in entries |-> users[e[1]].books[e[2]].rating]

RECURSIVE BagSum(_)
BagSum(f) ==
    IF DOMAIN f = {} THEN Zero
    ELSE LET e == CHOOSE x \in DOMAIN f : TRUE
         IN  QAdd(f[e], BagSum([x \in DOMAIN f \ {e} |-> f[x]]))

\* C27: with no request in flight, every book's totalRatings is the number of
\* library entries of all users that carry a rating for it, averageRating *
\* totalRatings is the sum of those ratings, and averageRating is within 0..5
C27_AggregatesMatchEntries ==
    reqs = <<>> =>
        \A b \in DOMAIN books :
            /\ books[b].totalRatings = Cardinality(DOMAIN RatingsFor(b))
            /\ OldSum(books[b]) = BagSum(RatingsFor(b))
            /\ QLeq(Zero, books[b].averageRating)
            /\ QLeq(books[b].averageRating, Q(5, 1))

----------------------------------------------------------------------------
(* Acknowledged library mutations (SpecLibrary) *)

\* request id stores its change of user.books in this step
SavedNow(id) ==
    /\ reqs[id].pc = "saveUser"
    /\ id \notin DOMAIN reqs' \/ reqs'[id].pc # "saveUser"
    /\ ~\E r \in resps' \ resps : r.id = id /\ r.code = 500

\* the library lib with the change of request q made to it, and nothing else
Applied(q, lib) ==
    LET i == EntryIndex([books |-> lib], q.book)
    IN  CASE q.route = "import" -> Append(lib, UserBook(q.book, "toRead", Undefined))
          [] i = 0              -> <<"lost">>
          [] q.route = "status" ->
                [lib EXCEPT ![i].status = q.doc.books[EntryIndex(q.doc, q.book)].status]
          [] q.route = "rating" -> [lib EXCEPT ![i].rating = q.rating]
          [] q.route = "delete" -> Splice(lib, i)

\* C28: a status, rating, import or removal request that stores its change
\* makes exactly that change to the library as stored at that moment, so the
\* changes other requests of the user have stored since it loaded the
\* document are kept
C28_NoLostLibraryUpdate ==
    [][\A id \in DOMAIN reqs :
            SavedNow(id) =>
                users'[reqs[id].user].books = Applied(reqs[id], users[reqs[id].user].books)]_vars

\* an import, a status change and a rating of one user on three books were all
\* answered with success and the stored library shows all three
C28_Witness ==
    /\ reqs = <<>>
    /\ \E r \in resps : r.route = "import" /\ r.code = 201
    /\ \E r \in resps : r.route = "status" /\ r.code = 200
    /\ \E r \in resps : r.route = "rating" /\ r.code = 200
    /\ users["u1"].books = <<UserBook("b1", "reading", Undefined),
                             UserBook("b2", "toRead", Q(4, 1)),
                             UserBook("b3", "toRead", Undefined)>>

----------------------------------------------------------------------------
(* What a recomputation writes (Spec) *)

\* the fields of a user document outside the preference model
OtherFields(user) == [f \in DOMAIN user \ ModelFields |-> user[f]]

\* C29: a step of updateUserPreferences (its read, its save, its failure)
\* leaves the library, the favorites and the version of its user, every other
\* user and every book as they are stored, also when the library or the
\* favorites have changed since the call read them
C29_OnlyModelFields ==
    [][\A t \in tasks \ tasks' :
            /\ books' = books
            /\ DOMAIN users' = DOMAIN users
            /\ \A u \in DOMAIN users :
                    IF u = t.user THEN OtherFields(users'[u]) = OtherFields(users[u])
                    ELSE users'[u] = users[u]]_vars

\* every request has finished and each success was a rating, favorite or
\* removal; the stored maps are those of a library and favorites a
\* recomputation read before a later mutation: that recomputation saved after
\* the mutation was stored, and the mutation is still in the document
C29_Witness ==
    /\ reqs = <<>> /\ tasks = {}
    /\ \A r \in resps : r.code = 200 => r.scheduled
    /\ ~ModelCurrent("u1") /\ users["u1"].preferredGenres # <<>>
    /\ \E h \in hist :
            LET then == [users["u1"] EXCEPT !.books = h.books, !.favorites = h.favorites]
            IN  /\ h.favorites # users["u1"].favorites \/ h.books # users["u1"].books
                /\ SameMap(users["u1"].preferredGenres,
                           ComputePreferences(then, books).preferredGenres)
                /\ SameMap(users["u1"].preferredAuthors,
                           ComputePreferences(then, books).preferredAuthors)

----------------------------------------------------------------------------
(* The number of books returned (SpecLimit) *)

\* the catalog books that match the candidate query of the answered request
\* and are not in the user's library
UnownedMatches ==
    LET user == users[call.user]
    IN  Find(books, BuildQuery(getTopFromMap(user.preferredGenres, 5),
                               getTopFromMap(user.preferredAuthors, 5), call.genre))
        \ UserBookIds(user)

\* C30: for a limit from 1 to 50 the request returns min(limit, N) books, N
\* being the number of catalog books that match the candidate query and are
\* not in the user's library
C30_ReturnsMinLimitUnowned ==
    (Answered /\ IntegerLimit) =>
        Len(ret.recommendations) =
            (IF call.limit[1] < Cardinality(UnownedMatches)
             THEN call.limit[1] ELSE Cardinality(UnownedMatches))

============================================================================
